---- MODULE Spec2Model ----
(***************************************************************************)
(* The polygon proximity linker (src/src/utils/PolygonProximityLinker.cpp) *)
(* and the wall-overlap flow computation (src/src/wallOverlap.cpp).        *)
(*                                                                         *)
(* A Point is a pair <<x, y>> of integers.  A ring node is an index into   *)
(* the node store `nodes`; a ring (std::list<Point>) is the sequence of    *)
(* its node ids in list order, so that inserting before an iterator keeps  *)
(* every other node's identity.  A link is a record [a, b, dist] of two    *)
(* node ids and a distance; two links are equal when their unordered       *)
(* endpoint pairs are equal (ProximityPointLink::operator==).              *)
(***************************************************************************)
EXTENDS Integers, Sequences, FiniteSets, TLC

\* ------------------------------------------------------------------ bounds
MaxW == 13          \* the proximity distance W is drawn from MaxW-1 .. MaxW
MaxSpike == 3       \* half-heights h of the spike polygon: 1 .. MaxSpike
MaxShift == 3       \* horizontal placements of the second polygon: 0 .. MaxShift

\* ------------------------------------------------------- program constants
SnapTolerance == 10 \* shorterThen(closest - last_point, 10)

\* ------------------------------------------------------------ 2D primitives
\* Operators take the values they use several times as parameters, so that
\* each is written once.
Abs(n) == IF n < 0 THEN -n ELSE n

Min(m, n) == IF m < n THEN m ELSE n

\* C++ integer division truncates toward zero
TruncDiv(n, d) == IF n >= 0 THEN n \div d ELSE -((-n) \div d)

RECURSIVE IsqrtBetween(_, _, _)
IsqrtBetween(n, lo, hi) ==
    IF lo >= hi THEN lo
    ELSE IF ((lo + hi + 1) \div 2) * ((lo + hi + 1) \div 2) <= n
         THEN IsqrtBetween(n, (lo + hi + 1) \div 2, hi)
         ELSE IsqrtBetween(n, lo, ((lo + hi + 1) \div 2) - 1)

\* int64_t d = sqrt(n): the square root truncated to an integer
Isqrt(n) == IsqrtBetween(n, 0, Min(n, 46340))

RECURSIVE Gcd(_, _)
Gcd(m, n) == IF n = 0 THEN m ELSE Gcd(n, m % n)

PAdd(p, q) == <<p[1] + q[1], p[2] + q[2]>>

PSub(p, q) == <<p[1] - q[1], p[2] - q[2]>>

dot(p, q) == p[1] * q[1] + p[2] * q[2]

cross(p, q) == p[1] * q[2] - p[2] * q[1]

vSize2(p) == p[1] * p[1] + p[2] * p[2]

vSize(p) == Isqrt(vSize2(p))

shorterThen(p, len) == vSize(p) < len

NormalBy(p, len, l) ==
    IF l < 1 THEN <<len, 0>>
    ELSE <<TruncDiv(p[1] * len, l), TruncDiv(p[2] * len, l)>>

normal(p, len) == NormalBy(p, len, vSize(p))

\* p0 + projected_x / vSize(direction) * direction / vSize(direction)
ClosestInside(p0, direction, projected_x, l) ==
    <<p0[1] + TruncDiv(TruncDiv(projected_x, l) * direction[1], l),
      p0[2] + TruncDiv(TruncDiv(projected_x, l) * direction[2], l)>>

ClosestBy(p0, p1, direction, projected_x) ==
    IF vSize2(direction) = 0 \/ projected_x <= 0 THEN p0
    ELSE IF projected_x >= vSize2(direction) THEN p1
    ELSE ClosestInside(p0, direction, projected_x, vSize(direction))

getClosestOnLineSegment(from, p0, p1) ==
    ClosestBy(p0, p1, PSub(p1, p0), dot(PSub(from, p0), PSub(p1, p0)))

\* ------------------------------------------------------------------- state
VARIABLES
    W,                              \* proximity_distance (== line_width)
    input,                          \* the polygons handed to the constructor
    nodes,                          \* node id -> Point
    list_polygons,                  \* ring index -> sequence of node ids
    proximity_point_links,          \* the primary link set
    proximity_point_links_endings,  \* the ending link set
    point_to_link,                  \* the multimap, as a sequence of [p, link]
    pc,                             \* "scan", "endings", "flow", "built", "done"
    poly_idx, poly2_idx, it,        \* loop position of findProximatePoints()
    visited,                        \* primary links addProximityEndings has visited
    zero_endings,                   \* history: pairs added by the dist == 0 branch
    ending_branches,                \* history: branches addProximityEnding has taken
    rounded,                        \* history: roundings that decided an ending distance
    ending_calls,                   \* history: what each addProximityEnding call met and did
    passed_links,                   \* WallOverlapComputation::passed_links
    flow_ring, flow_pos,            \* the driver's position in the traversal
    flow_result,                    \* the value of the last getFlow call
    flow_call,                      \* history: what the last getFlow call computed
    flow_log,                       \* history: the probes of the traversal
    polygons,                       \* the caller's Polygons& (written back at the end)
    run, mode, first_result         \* construction 1 or 2; what construction 1 built

vars == <<W, input, nodes, list_polygons, proximity_point_links,
          proximity_point_links_endings, point_to_link, pc, poly_idx, poly2_idx,
          it, visited, zero_endings, ending_branches, rounded, ending_calls,
          passed_links,
          flow_ring, flow_pos, flow_result, flow_call, flow_log, polygons, run,
          mode, first_result>>

\* ------------------------------------------------------------ list polygons
\* The linker's containers, as one record the construction steps transform.
Linker == [nodes |-> nodes, polys |-> list_polygons,
           links |-> proximity_point_links,
           endings |-> proximity_point_links_endings,
           index |-> point_to_link, zero |-> zero_endings,
           branches |-> ending_branches, rounded |-> rounded,
           calls |-> ending_calls, taken |-> <<>>]

RingOf(st, n) == CHOOSE r \in 1..Len(st.polys) :
                    \E k \in 1..Len(st.polys[r]) : st.polys[r][k] = n

PosIn(ring, n) == CHOOSE k \in 1..Len(ring) : ring[k] = n

NextAt(ring, k) == IF k = Len(ring) THEN ring[1] ELSE ring[k + 1]

PrevAt(ring, k) == IF k = 1 THEN ring[Len(ring)] ELSE ring[k - 1]

\* ListPolyIt::next() and prev(): cyclic steps
NextOf(st, n) == NextAt(st.polys[RingOf(st, n)], PosIn(st.polys[RingOf(st, n)], n))

PrevOf(st, n) == PrevAt(st.polys[RingOf(st, n)], PosIn(st.polys[RingOf(st, n)], n))

ListNextAt(ring, k) == IF k = Len(ring) THEN 0 ELSE ring[k + 1]

\* ++it on a std::list iterator; 0 stands for end()
ListNext(st, r, n) == ListNextAt(st.polys[r], PosIn(st.polys[r], n))

InsertAt(ring, k, id) == SubSeq(ring, 1, k - 1) \o <<id>> \o SubSeq(ring, k, Len(ring))

\* list.insert(before, p): the new node's id is Len(nodes) + 1
ListInsert(st, r, before, p) ==
    [st EXCEPT !.nodes = Append(@, p),
               !.polys[r] = InsertAt(@, PosIn(@, before), Len(st.nodes) + 1)]

\* n.poly.insert(before, p)
InsertOnRingOf(st, n, before, p) == ListInsert(st, RingOf(st, n), before, p)

\* ListPolyIt::convertPolygonsToLists
convertPolygonsToLists(polys) ==
    [nodes |-> IF Len(polys) = 1 THEN polys[1] ELSE polys[1] \o polys[2],
     polys |-> [r \in 1..Len(polys) |->
                  [k \in 1..Len(polys[r]) |->
                     (IF r = 1 THEN 0 ELSE Len(polys[1])) + k]]]

\* ListPolyIt::convertListPolygonsToPolygons
convertListPolygonsToPolygons(st) ==
    [r \in 1..Len(st.polys) |-> [k \in 1..Len(st.polys[r]) |-> st.nodes[st.polys[r][k]]]]

\* ------------------------------------------------------------------- links
SameLink(l, a, b) == (l.a = a /\ l.b = b) \/ (l.a = b /\ l.b = a)

\* unordered_set::emplace: the element of the set equal to the new link
Emplaced(set, link) ==
    IF \E l \in set : SameLink(l, link.a, link.b)
    THEN CHOOSE l \in set : SameLink(l, link.a, link.b)
    ELSE link

\* the index as a map: a Point that has an entry gets no second one
addToPoint2LinkMapOnce(index, p, link) ==
    IF \E k \in 1..Len(index) : index[k].p = p THEN index
    ELSE Append(index, [p |-> p, link |-> link])

addToPoint2LinkMap(index, p, link) == Append(index, [p |-> p, link |-> link])

\* The two addToPoint2LinkMap calls that follow an emplace
IndexBoth(st, el) ==
    addToPoint2LinkMap(addToPoint2LinkMap(st.index, st.nodes[el.a], el),
                       st.nodes[el.b], el)

PutLink(st, el) == [st EXCEPT !.links = @ \cup {el}, !.index = IndexBoth(st, el)]

PutEnding(st, el) == [st EXCEPT !.endings = @ \cup {el}, !.index = IndexBoth(st, el)]

addProximityLink(st, from, to, dist) ==
    PutLink(st, Emplaced(st.links, [a |-> from, b |-> to, dist |-> dist]))

addProximityLink_endings(st, from, to, dist) ==
    PutEnding(st, Emplaced(st.endings, [a |-> from, b |-> to, dist |-> dist]))

\* point_to_link.find(p) != point_to_link.end()
InIndex(index, p) == \E k \in 1..Len(index) : index[k].p = p

\* ------------------------------------------------------- phase 2: the scan
\* The skip rule of findProximatePoints: the segment (last_it, it) is
\* connected to from_it.
SkipSegment(st, from_it, r2, last_it, cur) ==
    /\ RingOf(st, from_it) = r2
    /\ \/ from_it = last_it \/ from_it = cur
       \/ PrevOf(st, from_it) = cur \/ NextOf(st, from_it) = last_it

\* The second half of the rejection test: on the same ring, the segment runs
\* the same way as both segments at [from].
SameWinding(st, from_it, r2, seg) ==
    /\ RingOf(st, from_it) = r2
    /\ dot(PSub(st.nodes[NextOf(st, from_it)], st.nodes[from_it]), seg) > 0
    /\ dot(PSub(st.nodes[from_it], st.nodes[PrevOf(st, from_it)]), seg) > 0

\* the distance, not its square, compared with the square of w
TooFarUnsquared(st, w, from_it, r2, last_it, cur, closest) ==
    \/ vSize(PSub(closest, st.nodes[from_it])) > w * w
    \/ SameWinding(st, from_it, r2, PSub(st.nodes[cur], st.nodes[last_it]))

TooFar(st, w, from_it, r2, last_it, cur, closest) ==
    \/ vSize2(PSub(closest, st.nodes[from_it])) > w * w
    \/ SameWinding(st, from_it, r2, PSub(st.nodes[cur], st.nodes[last_it]))

\* to_list_poly.insert(it, closest) and the link to the new node
LinkInserted(ins, from_it, dist) == addProximityLink(ins, from_it, Len(ins.nodes), dist)

\* a node inserted at the closest point, however near an end of the segment
LinkClosestNoSnap(st, from_it, r2, last_it, cur, closest, dist) ==
    LinkInserted(ListInsert(st, r2, cur, closest), from_it, dist)

\* The three ways a link is made once a segment is proximate.
LinkClosest(st, from_it, r2, last_it, cur, closest, dist) ==
    IF shorterThen(PSub(closest, st.nodes[last_it]), SnapTolerance)
    THEN addProximityLink(st, from_it, last_it, dist)
    ELSE IF shorterThen(PSub(closest, st.nodes[cur]), SnapTolerance)
    THEN addProximityLink(st, from_it, cur, dist)
    ELSE LinkInserted(ListInsert(st, r2, cur, closest), from_it, dist)

ScanClosest(st, w, from_it, r2, last_it, cur, closest) ==
    IF TooFar(st, w, from_it, r2, last_it, cur, closest) THEN st
    ELSE LinkClosest(st, from_it, r2, last_it, cur, closest,
                     Isqrt(vSize2(PSub(closest, st.nodes[from_it]))))

\* One iteration of the loop of findProximatePoints(from_it, r2, start).
ScanSegment(st, w, from_it, r2, last_it, cur) ==
    IF SkipSegment(st, from_it, r2, last_it, cur) THEN st
    ELSE ScanClosest(st, w, from_it, r2, last_it, cur,
                     getClosestOnLineSegment(st.nodes[from_it], st.nodes[last_it],
                                             st.nodes[cur]))

RECURSIVE ScanLoop(_, _, _, _, _, _)
\* last_it = it; ++it
ScanAdvance(st, w, from_it, r2, cur) ==
    ScanLoop(st, w, from_it, r2, cur, ListNext(st, r2, cur))

ScanLoop(st, w, from_it, r2, last_it, cur) ==
    IF cur = 0 THEN st
    ELSE ScanAdvance(ScanSegment(st, w, from_it, r2, last_it, cur), w, from_it, r2, cur)

\* findProximatePoints(from_it, to_list_poly_idx, start)
findProximatePoints(st, w, from_it, r2, start) ==
    ScanLoop(st, w, from_it, r2, st.polys[r2][Len(st.polys[r2])], start)

\* ------------------------------------------------- phase 3: ending links
\* A direction vector divided by the gcd of its components: the angle between
\* two vectors depends on their directions alone.
ReduceBy(p, g) == IF g = 0 THEN p ELSE <<TruncDiv(p[1], g), TruncDiv(p[2], g)>>

Reduce(p) == ReduceBy(p, Gcd(Abs(p[1]), Abs(p[2])))

\* cos_angle > .9999, for dot(a, b) > 0: with c = cross(a, b) and
\* P = |a|^2 |b|^2, cos^2 = 1 - c^2 / P, so the test is c^2 * 10^8 < 19999 * P,
\* that is 19999 * (P - 5000 c^2) > 5000 c^2.
CosAboveBy(P, c) == P - 5000 * c * c > (5000 * c * c) \div 19999

CosAbove9999(ra, rb) == CosAboveBy(vSize2(ra) * vSize2(rb), cross(ra, rb))

\* overlap * (1 / (2 sqrt(2 / (cos_angle + 1) - 1))) truncated to an integer.
\* sqrt(2 / (cos + 1) - 1) = tan(angle / 2) = |c| / (S + d) with S = |a||b|,
\* d = dot(a, b), c = cross(a, b), so the value is overlap (S + d) / (2 |c|).
AtMost(e, overlap, d, c, P) ==
    \/ 2 * c * e - overlap * d <= 0
    \/ (2 * c * e - overlap * d) * (2 * c * e - overlap * d) <= overlap * overlap * P

\* The source computes the quotient in doubles.  Where the real quotient is
\* exactly an integer e >= 1 the rounding of the double operations decides
\* whether the truncation yields e or e - 1: `down` is that outcome.
ExactQuotient(n, d, down) ==
    IF n % d = 0 /\ down /\ n >= d THEN (n \div d) - 1 ELSE n \div d

HalfOverlapBy(overlap, d, c, P, S, down) ==
    IF S * S = P THEN ExactQuotient(overlap * (S + d), 2 * c, down)
    ELSE CHOOSE e \in ((overlap * (S + d)) \div (2 * c))
                          ..((overlap * (S + 1 + d)) \div (2 * c)) :
            /\ AtMost(e, overlap, d, c, P)
            /\ ~AtMost(e + 1, overlap, d, c, P)

HalfOverlapOverTan(overlap, ra, rb, down) ==
    HalfOverlapBy(overlap, dot(ra, rb), Abs(cross(ra, rb)), vSize2(ra) * vSize2(rb),
                  Isqrt(vSize2(ra) * vSize2(rb)), down)

EndingDistanceOf(overlap, a, b, down) ==
    IF vSize2(a) = 0 \/ vSize2(b) = 0 \/ dot(a, b) <= 0 THEN -1
    ELSE IF CosAbove9999(Reduce(a), Reduce(b)) THEN Min(vSize(b), vSize(a))
    ELSE HalfOverlapOverTan(overlap, Reduce(a), Reduce(b), down)

proximityEndingDistance(w, a1, a2, b1, b2, a1b1_dist, down) ==
    EndingDistanceOf(w - a1b1_dist, PSub(a2, a1), PSub(b2, b1), down)

\* a1 + normal(a, dist) with a = a2 - a1, for the nodes n1 and n2
PointAlong(st, n1, n2, dist) ==
    PAdd(st.nodes[n1], normal(PSub(st.nodes[n2], st.nodes[n1]), dist))

\* history: the branch of addProximityEnding that made the latest ending link
\* (taken: the branches of the call in progress)
Branch(st, name) ==
    [st EXCEPT !.branches = @ \cup {name}, !.taken = Append(@, name)]

LinkNewestTo(ins, other, w) == addProximityLink_endings(ins, other, Len(ins.nodes), w)

LinkNewestFrom(ins, other, w) == addProximityLink_endings(ins, Len(ins.nodes), other, w)

\* The branch `dist*dist > min(a_length2, b_length2)` of addProximityEnding.
EndingClamped(st, w, link, a2_it, b2_it, a_after_middle, b_after_middle, dist, a_length2, b_length2) ==
    IF a_length2 < b_length2
    THEN Branch(LinkNewestTo(InsertOnRingOf(st, link.b, b_after_middle,
                                            PointAlong(st, link.b, b2_it, dist)),
                             a2_it, w),
                "clamped, a shorter")
    ELSE IF b_length2 < a_length2
    THEN Branch(LinkNewestFrom(InsertOnRingOf(st, link.a, a_after_middle,
                                              PointAlong(st, link.a, a2_it, dist)),
                               b2_it, w),
                "clamped, b shorter")
    ELSE Branch(addProximityLink_endings(st, a2_it, b2_it, w), "clamped, equal")

LinkNewestTwo(ins, w) ==
    addProximityLink_endings(ins, Len(ins.nodes) - 1, Len(ins.nodes), w)

\* The branch `dist > 0` of addProximityEnding.
EndingGeneral(st, w, link, a2_it, b2_it, a_after_middle, b_after_middle, dist) ==
    Branch(LinkNewestTwo(
               InsertOnRingOf(
                   InsertOnRingOf(st, link.a, a_after_middle,
                                  PointAlong(st, link.a, a2_it, dist)),
                   link.b, b_after_middle, PointAlong(st, link.b, b2_it, dist)),
               w),
           "general")

\* the dist == 0 branch handing on the link's own distance
EndingZeroOwnDist(st, w, link) ==
    [Branch(addProximityLink_endings(st, link.a, link.b, link.dist), "zero")
        EXCEPT !.zero = @ \cup {{link.a, link.b}}]

\* The branch `dist == 0` of addProximityEnding.
EndingZero(st, w, link) ==
    [Branch(addProximityLink_endings(st, link.a, link.b, w), "zero")
        EXCEPT !.zero = @ \cup {{link.a, link.b}}]

\* `if (dist > 0) ... else if (dist == 0) ...`
EndingTail(st, w, link, a2_it, b2_it, a_after_middle, b_after_middle, dist) ==
    IF dist > 0
    THEN EndingGeneral(st, w, link, a2_it, b2_it, a_after_middle, b_after_middle, dist)
    ELSE IF dist = 0 THEN EndingZero(st, w, link)
    ELSE st

\* The clamped branch sets dist to sqrt(min(a_length2, b_length2)) and falls
\* through to the `if (dist > 0)` that follows it.
EndingClampedThenTail(st, w, link, a2_it, b2_it, a_after_middle, b_after_middle, dist, a_length2, b_length2) ==
    EndingTail(EndingClamped(st, w, link, a2_it, b2_it, a_after_middle,
                             b_after_middle, dist, a_length2, b_length2),
               w, link, a2_it, b2_it, a_after_middle, b_after_middle, dist)

EndingWith(st, w, link, a2_it, b2_it, a_after_middle, b_after_middle, dist, a_length2, b_length2) ==
    IF dist < 0 THEN st
    ELSE IF dist * dist > Min(a_length2, b_length2)
    THEN EndingClampedThenTail(st, w, link, a2_it, b2_it, a_after_middle,
                               b_after_middle, Isqrt(Min(a_length2, b_length2)),
                               a_length2, b_length2)
    ELSE EndingTail(st, w, link, a2_it, b2_it, a_after_middle, b_after_middle, dist)

\* the ending procedure without the test of the index
addProximityEndingNoTest(st, w, link, a2_it, b2_it, a_after_middle, b_after_middle, down) ==
    EndingWith(st, w, link, a2_it, b2_it, a_after_middle, b_after_middle,
               proximityEndingDistance(w, st.nodes[link.a], st.nodes[a2_it],
                                       st.nodes[link.b], st.nodes[b2_it], link.dist,
                                       down),
               vSize2(PSub(st.nodes[a2_it], st.nodes[link.a])),
               vSize2(PSub(st.nodes[b2_it], st.nodes[link.b])))

addProximityEnding(st, w, link, a2_it, b2_it, a_after_middle, b_after_middle, down) ==
    IF InIndex(st.index, st.nodes[a2_it]) /\ InIndex(st.index, st.nodes[b2_it]) THEN st
    ELSE EndingWith(st, w, link, a2_it, b2_it, a_after_middle, b_after_middle,
                    proximityEndingDistance(w, st.nodes[link.a], st.nodes[a2_it],
                                            st.nodes[link.b], st.nodes[b2_it], link.dist,
                                            down),
                    vSize2(PSub(st.nodes[a2_it], st.nodes[link.a])),
                    vSize2(PSub(st.nodes[b2_it], st.nodes[link.b])))

\* history: where the rounding of the double computation decided the result,
\* the computation (overlap, a, b) and the way it rounded
Rounding(res, other, key, down) ==
    IF res = other THEN res
    ELSE [res EXCEPT !.rounded = @ \cup {[key |-> key, down |-> down]}]

RoundingKey(st, w, link, a2_it, b2_it) ==
    <<w - link.dist, PSub(st.nodes[a2_it], st.nodes[link.a]),
      PSub(st.nodes[b2_it], st.nodes[link.b])>>

\* history: one addProximityEnding call: whether the Points of a2 and b2 were
\* in the index when it began, the branches it took, and how many ending links
\* and nodes it added
Called(res, st, a2_it, b2_it) ==
    [res EXCEPT !.taken = <<>>,
                !.calls = @ \cup {[a2 |-> InIndex(st.index, st.nodes[a2_it]),
                                   b2 |-> InIndex(st.index, st.nodes[b2_it]),
                                   taken |-> res.taken,
                                   links |-> Cardinality(res.endings)
                                                 - Cardinality(st.endings),
                                   nodes |-> Len(res.nodes) - Len(st.nodes)]}]

EndingLogged(st, w, link, a2_it, b2_it, a_after_middle, b_after_middle, down) ==
    Called(Rounding(addProximityEnding(st, w, link, a2_it, b2_it, a_after_middle,
                                       b_after_middle, down),
                    addProximityEnding(st, w, link, a2_it, b2_it, a_after_middle,
                                       b_after_middle, ~down),
                    RoundingKey(st, w, link, a2_it, b2_it), down),
           st, a2_it, b2_it)

\* a_2 = a_1.next(), b_2 = b_1.prev(), inserting before a_2 and b_1
EndingForward(st, w, link, down) ==
    EndingLogged(st, w, link, NextOf(st, link.a), PrevOf(st, link.b),
                 NextOf(st, link.a), link.b, down)

\* a_2 = a_1.prev(), b_2 = b_1.next(), inserting before a_1 and b_2
EndingBackward(st, w, link, down) ==
    EndingLogged(st, w, link, PrevOf(st, link.a), NextOf(st, link.b),
                 link.a, NextOf(st, link.b), down)

\* the loop body without the `continue` for links at the proximity distance
EndingsOfLinkNoSkip(st, w, link, down1, down2) ==
    EndingBackward(EndingForward(st, w, link, down1), w, link, down2)

\* The body of the loop of addProximityEndings for one primary link.
EndingsOfLink(st, w, link, down1, down2) ==
    IF link.dist = w THEN st
    ELSE EndingBackward(EndingForward(st, w, link, down1), w, link, down2)

\* ------------------------------------------------------- linker queries
\* PolygonProximityLinker::isLinked(Point)
isLinked(st, p) == InIndex(st.index, p)

\* PolygonProximityLinker::getLinks(Point): the entries stored under p
getLinks(st, p) == SelectSeq(st.index, LAMBDA e : e.p = p)

\* PolygonProximityLinker::getLink(ListPolyIt, ListPolyIt): the link with that
\* endpoint pair from either set; <<>> when there is none
getLink(st, a, b) ==
    IF \E l \in st.links : SameLink(l, a, b)
    THEN <<CHOOSE l \in st.links : SameLink(l, a, b)>>
    ELSE IF \E l \in st.endings : SameLink(l, a, b)
    THEN <<CHOOSE l \in st.endings : SameLink(l, a, b)>>
    ELSE <<>>

\* ------------------------------------------------------- the flow evaluator
\* SymmetricPair<ProximityPointLink>: an unordered pair of links, each link
\* compared by its unordered endpoint pair
PairKey(link_a, link_b) == {{link_a.a, link_a.b}, {link_b.a, link_b.b}}

getIsPassed(passed, link_a, link_b) == PairKey(link_a, link_b) \in passed

setIsPassed(passed, link_a, link_b) == passed \cup {PairKey(link_a, link_b)}

getApproxOverlapArea(st, w, from, to) ==
    TruncDiv(vSize(PSub(PAdd(st.nodes[from.a], st.nodes[from.b]),
                        PAdd(st.nodes[to.a], st.nodes[to.b])))
                 * (w * 2 - from.dist - to.dist), 4)

\* handlePotentialOverlap once link_b is found; ev = [passed, log, area]
OverlapWith(st, w, ev, link_a, link_b) ==
    IF ~getIsPassed(ev.passed, link_a, link_b)
    THEN [ev EXCEPT !.passed = setIsPassed(@, link_a, link_b),
                    !.log = Append(@, [pair |-> PairKey(link_a, link_b),
                                       added |-> FALSE])]
    ELSE [ev EXCEPT !.passed = setIsPassed(@, link_a, link_b),
                    !.log = Append(@, [pair |-> PairKey(link_a, link_b),
                                       added |-> TRUE]),
                    !.area = @ + getApproxOverlapArea(st, w, link_a, link_b)]

OverlapFound(st, w, ev, link_a, found) ==
    IF found = <<>> THEN ev ELSE OverlapWith(st, w, ev, link_a, found[1])

handlePotentialOverlap(st, w, ev, link_a, from_it, to_it) ==
    OverlapFound(st, w, ev, link_a, getLink(st, from_it, to_it))

\* The three probes of getFlow for one link of [to]
FlowProbes(st, w, ev, to_link, to_it, to_other_it, from_it, to_other_next_it) ==
    handlePotentialOverlap(st, w,
        handlePotentialOverlap(st, w,
            handlePotentialOverlap(st, w, ev, to_link, to_other_next_it, to_it),
            to_link, to_other_it, from_it),
        to_link, to_other_next_it, from_it)

\* history: the Point of from_it = to_it.prev(), which the second assertion of
\* getFlow compares with [from]
FromSeen(st, ev, to_it) == [ev EXCEPT !.froms = @ \cup {st.nodes[PrevOf(st, to_it)]}]

FlowOriented(st, w, ev, to_link, to_it, to_other_it) ==
    FlowProbes(st, w, FromSeen(st, ev, to_it), to_link, to_it, to_other_it,
               PrevOf(st, to_it), NextOf(st, to_other_it))

\* The body of the loop of getFlow over the links of [to]
FlowOfLink(st, w, ev, to, to_link) ==
    IF st.nodes[to_link.a] # to
    THEN FlowOriented(st, w, ev, to_link, to_link.b, to_link.a)
    ELSE FlowOriented(st, w, ev, to_link, to_link.a, to_link.b)

RECURSIVE FlowLoop(_, _, _, _, _, _)
FlowLoop(st, w, ev, to, to_links, k) ==
    IF k > Len(to_links) THEN ev
    ELSE FlowLoop(st, w, FlowOfLink(st, w, ev, to, to_links[k].link), to, to_links, k + 1)

One == [nan |-> FALSE, num |-> 1, den |-> 1]

Zero == [nan |-> FALSE, num |-> 0, den |-> 1]

\* float(normal_area - overlap_area) / normal_area, clamped by the two
\* comparisons of getFlow.  A float is the record [nan, num, den].
Ratio(normal_area, overlap_area) ==
    IF normal_area = 0
    THEN IF overlap_area = 0 THEN [nan |-> TRUE, num |-> 0, den |-> 1]   \* 0.0 / 0
         ELSE IF overlap_area > 0 THEN Zero                               \* -inf
         ELSE One                                                         \* +inf
    ELSE IF normal_area - overlap_area > normal_area THEN One
    ELSE IF normal_area - overlap_area < 0 THEN Zero
    ELSE [nan |-> FALSE, num |-> normal_area - overlap_area, den |-> normal_area]

FlowResult(ev, normal_area) ==
    [passed |-> ev.passed, log |-> ev.log, ret |-> Ratio(normal_area, ev.area),
     call |-> [linked |-> TRUE, normal_area |-> normal_area,
               overlap_area |-> ev.area, from |-> ev.from, froms |-> ev.froms]]

\* history: a call that returned before it computed any area
NoCall == [linked |-> FALSE, normal_area |-> 0, overlap_area |-> 0,
           from |-> <<0, 0>>, froms |-> {}]

\* getFlow(from, to): the evaluator state after the call and the value returned
getFlow(st, w, passed, log, from, to) ==
    IF ~isLinked(st, from) \/ getLinks(st, to) = <<>>
    THEN [passed |-> passed, log |-> log, ret |-> One, call |-> NoCall]
    ELSE FlowResult(FlowLoop(st, w, [passed |-> passed, log |-> log, area |-> 0,
                                     from |-> from, froms |-> {}],
                             to, getLinks(st, to), 1),
                    vSize(PSub(from, to)) * w)

\* ------------------------------------------------------------------ inputs
Rect(w, h) == <<<<0, 0>>, <<w, 0>>, <<w, h>>, <<0, h>>>>

\* a triangle with its apex at the origin, pointing down
Tri(arm) == <<<<0, 0>>, <<arm[1], arm[2]>>, <<-arm[1], arm[2]>>>>

\* a slab with a spike of half-height h on its right side
Spike(h) == <<<<0, 0>>, <<20, h>>, <<0, 2 * h>>, <<-20, 2 * h>>, <<-20, 0>>>>

\* a slab with a notch in its top side, the tip of the notch 5 above the
\* bottom side; the tip is the first vertex
Notch == <<<<30, 5>>, <<0, 20>>, <<0, 0>>, <<60, 0>>, <<60, 20>>>>

\* the same ring starting k vertices later
Rotate(poly, k) == [j \in 1..Len(poly) |-> poly[((j + k - 1) % Len(poly)) + 1]]

Notches == {Rotate(Notch, k) : k \in 0..(Len(Notch) - 1)}

TriArms == {<<20, 20>>, <<10, 20>>, <<20, 2>>}

Translate(poly, d) == [k \in 1..Len(poly) |-> PAdd(poly[k], d)]

TopY(poly) == CHOOSE y \in {poly[k][2] : k \in 1..Len(poly)} :
                 \A k \in 1..Len(poly) : poly[k][2] <= y

Widths == (MaxW - 1)..MaxW

Gaps(w) == {0, w \div 2, w - 1, w, w + 1, w + 3}

FirstShapes == {Rect(60, 20)} \cup {Spike(h) : h \in 1..MaxSpike}

SecondShapes == {Rect(60, 20)} \cup {Tri(arm) : arm \in TriArms}

\* horizontal placements of the second polygon
Shifts == {20 * i : i \in 0..MaxShift}

Placements(w, P) == {<<dx, TopY(P) + g>> : dx \in Shifts, g \in Gaps(w)}

\* the second polygon's apex up and to the left of the first polygon's
\* top-left corner, a little more than w away from it
CornerPlacement(w, P) == <<P[Len(P)][1] - 11, TopY(P) + w - 1>>

Inputs(w) ==
    {<<P>> : P \in FirstShapes \cup Notches}
    \cup UNION {{<<P, Translate(Q, d)>> : d \in Placements(w, P)} :
                 P \in FirstShapes, Q \in SecondShapes}
    \cup {<<P, Translate(Tri(<<20, 2>>), CornerPlacement(w, P))>> : P \in FirstShapes}

\* scenario S2: two parallel rectangles, the gap between them half of W
S2 == [W |-> 50, polygons |-> <<Rect(1000, 100), Translate(Rect(1000, 100), <<0, 125>>)>>]

\* the inputs of the termination check: every shape alone, and every pair of
\* shapes at half the proximity distance
HalfGapInputs(w) ==
    {<<P>> : P \in FirstShapes \cup Notches}
    \cup {<<P, Translate(Q, <<0, TopY(P) + (w \div 2)>>)>> :
             P \in FirstShapes, Q \in SecondShapes}

NoLinker == [nodes |-> <<>>, polys |-> <<>>, links |-> {}, endings |-> {},
             index |-> <<>>, zero |-> {}, branches |-> {}, rounded |-> {},
             calls |-> {}, taken |-> <<>>]

\* ----------------------------------------------------------------- actions
\* The constructor up to the call of findProximatePoints().
Constructing ==
    /\ mode \in IF Len(input) = 2 THEN {"same", "swap"} ELSE {"same"}
    /\ run = 1
    /\ polygons = input
    /\ nodes = convertPolygonsToLists(input).nodes
    /\ list_polygons = convertPolygonsToLists(input).polys
    /\ proximity_point_links = {}
    /\ proximity_point_links_endings = {}
    /\ point_to_link = <<>>
    /\ zero_endings = {}
    /\ ending_branches = {}
    /\ rounded = {}
    /\ ending_calls = {}
    /\ pc = "scan"
    /\ poly_idx = 1
    /\ poly2_idx = 1
    /\ it = 1
    /\ visited = {}
    /\ passed_links = {}
    /\ flow_ring = 1
    /\ flow_pos = 1
    /\ flow_result = One
    /\ flow_call = NoCall
    /\ flow_log = <<>>
    /\ first_result = NoLinker

Init ==
    /\ \/ W \in Widths /\ input \in Inputs(W)
       \/ W = S2.W /\ input = S2.polygons
    /\ Constructing

SetLinker(st) ==
    /\ nodes' = st.nodes
    /\ list_polygons' = st.polys
    /\ proximity_point_links' = st.links
    /\ proximity_point_links_endings' = st.endings
    /\ point_to_link' = st.index
    /\ zero_endings' = st.zero
    /\ ending_branches' = st.branches
    /\ rounded' = st.rounded
    /\ ending_calls' = st.calls

\* The advance of the three loops of findProximatePoints() after one vertex
LoopAdvance(st, nxt) ==
    IF nxt # 0
    THEN /\ it' = nxt
         /\ UNCHANGED <<poly_idx, poly2_idx, pc>>
    ELSE IF poly2_idx < poly_idx
    THEN /\ poly2_idx' = poly2_idx + 1
         /\ it' = Head(st.polys[poly_idx])
         /\ UNCHANGED <<poly_idx, pc>>
    ELSE IF poly_idx < Len(list_polygons)
    THEN /\ poly_idx' = poly_idx + 1
         /\ poly2_idx' = 1
         /\ it' = Head(st.polys[poly_idx + 1])
         /\ UNCHANGED pc
    ELSE /\ pc' = "endings"
         /\ it' = 0
         /\ UNCHANGED <<poly_idx, poly2_idx>>

\* the outer iterator stepping cyclically, so that it never reaches end()
ScannedAround(st) == SetLinker(st) /\ LoopAdvance(st, NextOf(st, it))

Scanned(st) == SetLinker(st) /\ LoopAdvance(st, ListNext(st, poly_idx, it))

\* One iteration of the innermost loop of findProximatePoints(): the vertex
\* `it` of ring poly_idx against ring poly2_idx, and the loop's advance.
ScanVertex ==
    /\ pc = "scan"
    /\ Scanned(findProximatePoints(Linker, W, it, poly2_idx,
                                   IF poly_idx = poly2_idx THEN it
                                   ELSE Head(list_polygons[poly2_idx])))
    /\ UNCHANGED <<W, input, visited, passed_links, flow_ring, flow_pos,
                   flow_result, flow_call, flow_log, polygons, run, mode,
                   first_result>>

\* One iteration of the loop of addProximityEndings().  The loop runs over a
\* std::unordered_set, whose iteration order is unspecified.
EndingStep ==
    /\ pc = "endings"
    /\ \E link \in proximity_point_links \ visited, down1 \in BOOLEAN, down2 \in BOOLEAN :
          /\ SetLinker(EndingsOfLink(Linker, W, link, down1, down2))
          /\ visited' = visited \cup {link}
    /\ UNCHANGED <<W, input, pc, poly_idx, poly2_idx, it, passed_links, flow_ring,
                   flow_pos, flow_result, flow_call, flow_log, polygons, run, mode,
                   first_result>>

\* The end of the constructor: the list polygons are written back.
FinishConstruction ==
    /\ pc = "endings"
    /\ visited = proximity_point_links
    /\ polygons' = convertListPolygonsToPolygons(Linker)
    /\ pc' = IF run = 1 THEN "flow" ELSE "done"
    /\ first_result' = IF run = 1 THEN Linker ELSE first_result
    /\ UNCHANGED <<W, input, nodes, list_polygons, proximity_point_links,
                   proximity_point_links_endings, point_to_link, poly_idx,
                   poly2_idx, it, visited, zero_endings, ending_branches, rounded,
                   ending_calls,
                   passed_links, flow_ring, flow_pos, flow_result, flow_call,
                   flow_log, run, mode>>

FlowAdvance(ring) ==
    IF flow_pos < Len(ring)
    THEN /\ flow_pos' = flow_pos + 1
         /\ UNCHANGED <<flow_ring, pc>>
    ELSE IF flow_ring < Len(polygons)
    THEN /\ flow_ring' = flow_ring + 1
         /\ flow_pos' = 1
         /\ UNCHANGED pc
    ELSE /\ pc' = "built"
         /\ UNCHANGED <<flow_ring, flow_pos>>

Flowed(res) ==
    /\ passed_links' = res.passed
    /\ flow_log' = res.log
    /\ flow_result' = res.ret
    /\ flow_call' = res.call

FlowEdge(ring, k) ==
    getFlow(Linker, W, passed_links, flow_log, ring[k], ring[(k % Len(ring)) + 1])

\* The driver's next call of getFlow: the edges of each ring in path order.
GetFlow ==
    /\ pc = "flow"
    /\ Flowed(FlowEdge(polygons[flow_ring], flow_pos))
    /\ FlowAdvance(polygons[flow_ring])
    /\ UNCHANGED <<W, input, nodes, list_polygons, proximity_point_links,
                   proximity_point_links_endings, point_to_link, poly_idx,
                   poly2_idx, it, visited, zero_endings, ending_branches, rounded,
                   ending_calls,
                   polygons, run, mode, first_result>>

\* A second, independent construction: on the same polygons, or on the two
\* polygons in the other order.
SecondInput == IF mode = "swap" THEN <<input[2], input[1]>> ELSE input

SecondConstruction ==
    /\ pc = "built"
    /\ run' = 2
    /\ polygons' = SecondInput
    /\ SetLinker([NoLinker EXCEPT !.nodes = convertPolygonsToLists(SecondInput).nodes,
                                  !.polys = convertPolygonsToLists(SecondInput).polys])
    /\ pc' = "scan"
    /\ poly_idx' = 1
    /\ poly2_idx' = 1
    /\ it' = 1
    /\ visited' = {}
    /\ UNCHANGED <<W, input, passed_links, flow_ring, flow_pos, flow_result,
                   flow_call, flow_log, mode, first_result>>

Next == ScanVertex \/ EndingStep \/ FinishConstruction \/ GetFlow
            \/ SecondConstruction

Spec == Init /\ [][Next]_vars

LiveInit ==
    /\ \/ W \in Widths /\ input \in HalfGapInputs(W)
       \/ W = S2.W /\ input = S2.polygons
    /\ Constructing

\* The code is sequential: a step that can be taken is taken.  This is
\* WF_vars(Next) written out, []<>~ENABLED <<Next>>_vars \/ []<><<Next>>_vars:
\* a step of Next can be taken in every state but those with pc = "done".
Fairness == []<>(pc = "done") \/ []<><<Next>>_vars

LiveSpec == LiveInit /\ [][Next]_vars /\ Fairness

\* ------------------------------------------------------------------ claims
AllLinks == proximity_point_links \cup proximity_point_links_endings

Constructed == pc \in {"flow", "built", "done"}

IsOne(f) == ~f.nan /\ f.num = f.den

\* C1: every value getFlow returns lies in the closed interval [0, 1]; it is
\* never NaN, negative or greater than 1.
C1_FlowInUnitInterval ==
    /\ ~flow_result.nan
    /\ 0 <= flow_result.num
    /\ flow_result.num <= flow_result.den

\* C2: when from and to are both linked and the nominal area
\* vSize(from - to) * W is 0, getFlow returns 1 whatever the overlap area is.
C2_ZeroNominalReturnsOne ==
    (flow_call.linked /\ flow_call.normal_area = 0) => IsOne(flow_result)

\* C3: the index and the link sets agree: every link of either set has an
\* entry under the Point of its endpoint a and one under the Point of its
\* endpoint b, and every entry under a Point p is a link of one of the sets
\* with an endpoint at p.
Indexed(p, link) ==
    \E k \in 1..Len(point_to_link) :
        point_to_link[k].p = p /\ point_to_link[k].link = link

C3_IndexAgreesWithLinks ==
    /\ \A l \in AllLinks : Indexed(nodes[l.a], l) /\ Indexed(nodes[l.b], l)
    /\ \A k \in 1..Len(point_to_link) :
          /\ point_to_link[k].link \in AllLinks
          /\ point_to_link[k].p \in {nodes[point_to_link[k].link.a],
                                     nodes[point_to_link[k].link.b]}

\* C3 witness: a finished construction with primary links, ending links and a
\* link that the index holds twice under one Point.
C3_IndexedTwiceReached ==
    /\ pc = "built"
    /\ proximity_point_links # {}
    /\ proximity_point_links_endings # {}
    /\ \E j, k \in 1..Len(point_to_link) : j < k /\ point_to_link[j] = point_to_link[k]

Adjacent(a, b) == NextOf(Linker, a) = b \/ PrevOf(Linker, a) = b

\* C4: after construction no link of either set has both endpoints on one
\* node, and none joins a node to its prev or next node.
C4_NoSelfOrAdjacentLink ==
    Constructed => \A l \in AllLinks : l.a # l.b /\ ~Adjacent(l.a, l.b)

\* C5: every link of the endings set has dist equal to W.
C5_EndingsAtW == \A l \in proximity_point_links_endings : l.dist = W

\* C5 witness: one construction that has taken the general branch, a clamped
\* branch and the dist == 0 branch.
C5_AllBranchesReached ==
    /\ pc = "built"
    /\ {"general", "zero"} \subseteq ending_branches
    /\ ending_branches \cap {"clamped, a shorter", "clamped, b shorter",
                             "clamped, equal"} # {}

\* C6: the primary set and the endings set are disjoint: no pair of nodes is a
\* link of both.
C6_LinkSetsDisjoint ==
    Constructed =>
        ~\E l \in proximity_point_links, e \in proximity_point_links_endings :
            SameLink(e, l.a, l.b)

\* C6 amended: a pair of nodes is a link of both sets only where the
\* dist == 0 branch has added the pair of a primary link to the endings; the
\* primary link then has dist < W and the ending link dist = W.
C6_SharedOnlyByZeroBranch ==
    \A l \in proximity_point_links, e \in proximity_point_links_endings :
        SameLink(e, l.a, l.b) =>
            {l.a, l.b} \in zero_endings /\ l.dist < W /\ e.dist = W

\* C6 witness: a finished construction in which a pair is in both sets.
C6_SharedPairReached ==
    /\ pc = "built"
    /\ \E l \in proximity_point_links, e \in proximity_point_links_endings :
          SameLink(e, l.a, l.b)

\* The distance from v to the segment (p0, p1) exceeds w; d = p1 - p0 and
\* t = dot(v - p0, d).
FartherBy(v, p0, p1, d, t, w) ==
    IF t <= 0 THEN vSize2(PSub(v, p0)) > w * w
    ELSE IF t >= vSize2(d) THEN vSize2(PSub(v, p1)) > w * w
    ELSE cross(PSub(v, p0), Reduce(d)) * cross(PSub(v, p0), Reduce(d))
             > w * w * vSize2(Reduce(d))

Farther(v, p0, p1, w) == FartherBy(v, p0, p1, PSub(p1, p0), dot(PSub(v, p0), PSub(p1, p0)), w)

VerticesFarther(P, Q, w) ==
    \A j \in 1..Len(P), k \in 1..Len(Q) : Farther(P[j], Q[k], Q[(k % Len(Q)) + 1], w)

\* the minimum distance between the polygons P and Q exceeds w
FarApart(P, Q, w) == VerticesFarther(P, Q, w) /\ VerticesFarther(Q, P, w)

\* C7: for two input polygons whose minimum distance from each other exceeds
\* W, construction yields no link and inserts no vertex, and getFlow returns 1
\* for every edge.
C7_FarApartNoLinks ==
    (Len(input) = 2 /\ FarApart(input[1], input[2], W)) =>
        /\ AllLinks = {}
        /\ Len(nodes) = Len(input[1]) + Len(input[2])
        /\ IsOne(flow_result)

\* C7 amended: for two input polygons whose minimum distance from each other
\* exceeds W + 2, no link joins a node of one polygon to a node of the other;
\* where the construction yields no link at all, it inserts no vertex and
\* getFlow returns 1 for every edge.
C7_FarApartNoCrossLinks ==
    (Len(input) = 2 /\ FarApart(input[1], input[2], W + 2)) =>
        /\ \A l \in AllLinks : RingOf(Linker, l.a) = RingOf(Linker, l.b)
        /\ (AllLinks = {} /\ pc # "scan") =>
              Len(nodes) = Len(input[1]) + Len(input[2])
        /\ (AllLinks = {} /\ run = 1) => IsOne(flow_result)

\* C7 witness: the traversal is over for two polygons more than W + 2 apart,
\* one of which has links of its own.
C7_FarApartReached ==
    /\ pc = "built"
    /\ Len(input) = 2
    /\ FarApart(input[1], input[2], W + 2)
    /\ AllLinks # {}

\* the (dist, distance between the endpoint Points) pair of a link; the
\* distance is compared by its square
Profile(st, l) == <<l.dist, vSize2(PSub(st.nodes[l.a], st.nodes[l.b]))>>

ProfileCount(st, key) ==
    Cardinality({l \in st.links : Profile(st, l) = key})
        + Cardinality({l \in st.endings : Profile(st, l) = key})

Profiles(st) == {Profile(st, l) : l \in st.links \cup st.endings}

SameProfiles(s, t) ==
    \A key \in Profiles(s) \cup Profiles(t) : ProfileCount(s, key) = ProfileCount(t, key)

\* C8: the constructions on [P, Q] and on [Q, P] yield the same number of
\* links and the same multiset of (dist, distance between endpoint Points).
C8_SwapSymmetry ==
    (pc = "done" /\ mode = "swap") =>
        /\ Cardinality(first_result.links) + Cardinality(first_result.endings)
              = Cardinality(proximity_point_links)
                  + Cardinality(proximity_point_links_endings)
        /\ SameProfiles(first_result, Linker)

\* a set of links as unordered (Point_a, Point_b, dist) triples
Triples(st, links) == {<<{st.nodes[l.a], st.nodes[l.b]}, l.dist>> : l \in links}

\* every double computation (overlap, a, b) rounded one way
SameRounding(r) == \A x \in r, y \in r : x.key = y.key => x.down = y.down

\* C9: two constructions on the same polygons and W, in which equal double
\* computations round equally, yield the same primary set and the same endings
\* set as sets of (Point_a, Point_b, dist) triples, whatever the order in which
\* phase 3 visits the primary links.
C9_Deterministic ==
    (pc = "done" /\ mode = "same" /\ SameRounding(first_result.rounded \cup rounded)) =>
        /\ Triples(first_result, first_result.links)
              = Triples(Linker, proximity_point_links)
        /\ Triples(first_result, first_result.endings)
              = Triples(Linker, proximity_point_links_endings)

Probes(pair) == {k \in 1..Len(flow_log) : flow_log[k].pair = pair}

Additions(pair) == {k \in Probes(pair) : flow_log[k].added}

\* C10: over one full traversal the area of every pair of links that is probed
\* again after its first probe is added exactly once: the first probe adds
\* nothing and exactly one later probe adds the area.
C10_AreaAddedOnce ==
    pc = "built" =>
        \A k \in 1..Len(flow_log) :
            Cardinality(Probes(flow_log[k].pair)) >= 2 =>
                Cardinality(Additions(flow_log[k].pair)) = 1

\* C11: when getFlow is called on an edge (from, to) of a stored ring, every
\* link stored under the Point of [to], oriented so that to_it has that Point,
\* has from_it = to_it.prev() at the Point [from]: the assertion of getFlow
\* holds, also where two ring nodes share a Point.
C11_FromIsPrevOfTo == flow_call.linked => flow_call.froms \subseteq {flow_call.from}
IsS2 == W = S2.W /\ input = S2.polygons

\* C12: in scenario S2 (R1 = (0,0)-(1000,100), R2 = (0,125)-(1000,225),
\* W = 50) construction yields at least 4 primary links with dist 25 and
\* ending links with dist 50 at the two ends of the overlap region.
C12_S2FourLinksAndEndings ==
    (IsS2 /\ Constructed) =>
        /\ Cardinality({l \in proximity_point_links : l.dist = 25}) >= 4
        /\ Cardinality({l \in proximity_point_links_endings : l.dist = 50}) >= 2

\* C12 amended: in scenario S2 construction yields exactly two primary links,
\* both with dist 25, one between the facing corners at x = 0 and one between
\* the facing corners at x = 1000; it yields no ending link and inserts no
\* node.
C12_S2TwoCornerLinks ==
    (IsS2 /\ pc # "scan") =>
        /\ Cardinality(proximity_point_links) = 2
        /\ Triples(Linker, proximity_point_links)
              = {<<{<<0, 100>>, <<0, 125>>}, 25>>, <<{<<1000, 100>>, <<1000, 125>>}, 25>>}
        /\ proximity_point_links_endings = {}
        /\ Len(nodes) = 8

\* C12 witness: scenario S2 constructed and traversed, with its two links.
C12_S2Reached == IsS2 /\ pc = "built" /\ Cardinality(proximity_point_links) = 2
\* the number of nodes the constructor was given
InputNodes == IF Len(polygons) = 0 THEN 0 ELSE Len(convertPolygonsToLists(input).nodes)

\* C13: construction terminates: the scan of phase 2, which inserts nodes into
\* the ring it is iterating, reaches the end of every ring, and phase 3 ends
\* once every primary link has been visited.
C13_ConstructionTerminates == (pc = "scan") ~> (pc \in {"flow", "done"})

\* C13 witness: a finished construction whose scan of a ring against itself
\* inserted a node into that ring.
C13_SelfInsertionReached ==
    /\ pc = "flow"
    /\ visited = proximity_point_links
    /\ \E l \in proximity_point_links :
          /\ RingOf(Linker, l.a) = RingOf(Linker, l.b)
          /\ l.b > InputNodes
Acted(c) == c.links # 0 \/ c.nodes # 0

\* C14: an addProximityEnding call that finds the Point of a2 in the index, or
\* the Point of b2 (either one), adds no ending link and inserts no node.
C14_SkipIfEitherIndexed == \A c \in ending_calls : (c.a2 \/ c.b2) => ~Acted(c)

\* C14 amended: an addProximityEnding call that finds both the Point of a2 and
\* the Point of b2 in the index adds no ending link and inserts no node; a
\* call that finds at most one of them goes on to compute the ending.
C14_SkipIfBothIndexed ==
    \A c \in ending_calls : (c.a2 /\ c.b2) => (~Acted(c) /\ c.taken = <<>>)

\* C14 witness: a finished phase 3 with a call that found both Points indexed
\* and a call that found exactly one and added an ending link.
C14_BothAndOneReached ==
    /\ pc = "flow"
    /\ \E c \in ending_calls : c.a2 /\ c.b2
    /\ \E c \in ending_calls : (c.a2 # c.b2) /\ c.links > 0
\* the list polygons as the constructor first makes them
InputLinker ==
    [NoLinker EXCEPT !.nodes = convertPolygonsToLists(input).nodes,
                     !.polys = convertPolygonsToLists(input).polys]

\* the edge (last_it, cur) of ring r passes the skip rule and the rejection
\* test for the vertex v
Proximate(st, v, r, last_it, cur) ==
    /\ ~SkipSegment(st, v, r, last_it, cur)
    /\ ~TooFar(st, W, v, r, last_it, cur,
               getClosestOnLineSegment(st.nodes[v], st.nodes[last_it], st.nodes[cur]))

\* a primary link joins v to a node of the edge (last_it, cur): an end of the
\* edge or a node at the closest point
LinkedToEdge(st, v, last_it, cur) ==
    \E l \in proximity_point_links, n \in 1..Len(nodes) :
        /\ SameLink(l, v, n)
        /\ \/ n \in {last_it, cur}
           \/ nodes[n] = getClosestOnLineSegment(st.nodes[v], st.nodes[last_it],
                                                 st.nodes[cur])

EdgesLinked(st, r, ring) ==
    \A j, k \in 1..Len(ring) :
        Proximate(st, ring[j], r, PrevAt(ring, k), ring[k])
            => LinkedToEdge(st, ring[j], PrevAt(ring, k), ring[k])

\* C15: once a ring has been scanned against itself, every vertex v of the
\* input ring has a primary link to every edge of that ring which the skip
\* rule does not exclude and the rejection test does not reject, the closing
\* edge and the edges before v in list order included.
C15_SelfScanComplete ==
    (run = 1 /\ pc # "scan") =>
        \A r \in 1..Len(input) : EdgesLinked(InputLinker, r, InputLinker.polys[r])
\* the call took the branch dist * dist > min(a_length2, b_length2)
Clamped(c) ==
    /\ c.taken # <<>>
    /\ Head(c.taken) \in {"clamped, a shorter", "clamped, b shorter", "clamped, equal"}

\* C16: an addProximityEnding call whose ending distance is clamped adds
\* exactly one ending link: to one new node on the longer segment, or between
\* the two far endpoints with no new node where the lengths are equal; it
\* adds no second link and no further node.
C16_ClampedAddsOneLink ==
    \A c \in ending_calls :
        Clamped(c) =>
            /\ Len(c.taken) = 1
            /\ c.links = 1
            /\ c.nodes = IF Head(c.taken) = "clamped, equal" THEN 0 ELSE 1

====
